---------------------------- MODULE Spec2Model ----------------------------
(***************************************************************************)
(* A model of the basic HTTP/1.1 server of src/src/server/http.rs: the     *)
(* request parser parse_request, the response serializer                   *)
(* HttpResponse::to_string and the accept loop HttpServer::listen.         *)
(*                                                                         *)
(* Text is a sequence of one-character strings.  A byte that is no valid   *)
(* UTF-8 is the token BAD; String::from_utf8_lossy turns it into the       *)
(* replacement character REPL, whose UTF-8 encoding is three bytes long.   *)
(***************************************************************************)
EXTENDS Integers, Sequences, FiniteSets, TLC

(***************************************************************************)
(* Bounds of the model.                                                    *)
(***************************************************************************)
\* Size of the buffer of the initial read.  The source reads into 2048
\* bytes; the model keeps the same code path with a buffer scaled down to
\* the length of the requests it enumerates.
BufSize == 40
\* Number of connections the model lets the listener accept.
MaxConns == 2

(***************************************************************************)
(* Characters and strings.                                                 *)
(***************************************************************************)
Chars(s) == [i \in 1..Len(s) |-> SubSeq(s, i, i)]

NUL == "NUL"
BAD == "xFF"
REPL == "uFFFD"
CR == "\r"
LF == "\n"
CRLF == <<CR, LF>>

\* char::is_whitespace on the characters the model uses
IsWhitespace(c) == c \in {" ", "\t", "\n", "\r", "\f"}

\* UTF-8 length of a character, and String::len (length in bytes)
Utf8Len(c) == IF c = REPL THEN 3 ELSE 1

RECURSIVE StrLen(_)
StrLen(s) == IF s = <<>> THEN 0 ELSE Utf8Len(Head(s)) + StrLen(Tail(s))

\* String::from_utf8_lossy on a byte buffer
FromUtf8Lossy(bytes) ==
    [i \in 1..Len(bytes) |-> IF bytes[i] = BAD THEN REPL ELSE bytes[i]]

\* let mut buffer = [0; N]; stream.read(&mut buffer) with `data` delivered
ZeroBuffer(n) == [i \in 1..n |-> NUL]
FillBuffer(data, n) == data \o ZeroBuffer(n - Len(data))

\* str::split("\r\n"): the pieces between the occurrences of CR LF, found
\* from left to right; there is always at least one piece
RECURSIVE SplitFrom(_, _, _)
SplitFrom(s, start, i) ==
    IF i >= Len(s)
    THEN <<SubSeq(s, start, Len(s))>>
    ELSE IF s[i] = CR /\ s[i + 1] = LF
         THEN <<SubSeq(s, start, i - 1)>> \o SplitFrom(s, i + 2, i + 2)
         ELSE SplitFrom(s, start, i + 1)

SplitCRLF(s) == SplitFrom(s, 1, 1)

\* str::split_whitespace: the non-empty maximal runs of non-whitespace
RECURSIVE WsFrom(_, _, _)
WsFrom(s, start, i) ==
    IF i > Len(s)
    THEN IF start < i THEN <<SubSeq(s, start, i - 1)>> ELSE <<>>
    ELSE IF IsWhitespace(s[i])
         THEN (IF start < i THEN <<SubSeq(s, start, i - 1)>> ELSE <<>>)
              \o WsFrom(s, i + 1, i + 1)
         ELSE WsFrom(s, start, i + 1)

SplitWhitespace(s) == WsFrom(s, 1, 1)

\* str::splitn(2, ": "): the line cut at the first ": ", or the line alone
SepAt(line) ==
    {i \in 1..(Len(line) - 1) : line[i] = ":" /\ line[i + 1] = " "}

Min(S) == CHOOSE x \in S : \A y \in S : x <= y

Splitn2(line) ==
    IF SepAt(line) = {}
    THEN <<line>>
    ELSE LET i == Min(SepAt(line))
         IN  <<SubSeq(line, 1, i - 1), SubSeq(line, i + 2, Len(line))>>

\* [&str]::join(sep)
RECURSIVE Join(_, _)
Join(ls, sep) ==
    IF ls = <<>> THEN <<>>
    ELSE IF Len(ls) = 1 THEN ls[1]
    ELSE ls[1] \o sep \o Join(Tail(ls), sep)

\* Iterator::skip(n)
Skip(ls, n) == SubSeq(ls, n + 1, Len(ls))

\* str::trim_matches(char::from(0)): NULs removed at both ends
TrimMatchesNul(s) ==
    LET keep == {i \in 1..Len(s) : s[i] # NUL}
    IN  IF keep = {} THEN <<>>
        ELSE SubSeq(s, Min(keep), CHOOSE x \in keep : \A y \in keep : y <= x)

\* str::parse::<usize>(): an optional '+' and at least one decimal digit
Digits == {"0", "1", "2", "3", "4", "5", "6", "7", "8", "9"}
DigitVal(c) ==
    CASE c = "0" -> 0 [] c = "1" -> 1 [] c = "2" -> 2 [] c = "3" -> 3
      [] c = "4" -> 4 [] c = "5" -> 5 [] c = "6" -> 6 [] c = "7" -> 7
      [] c = "8" -> 8 [] c = "9" -> 9

RECURSIVE DecVal(_, _)
DecVal(s, acc) ==
    IF s = <<>> THEN acc ELSE DecVal(Tail(s), 10 * acc + DigitVal(Head(s)))

ParseUsize(s) ==
    LET d == IF s # <<>> /\ Head(s) = "+" THEN Tail(s) ELSE s
    IN  IF d # <<>> /\ \A i \in 1..Len(d) : d[i] \in Digits
        THEN [ok |-> TRUE, val |-> DecVal(d, 0)]
        ELSE [ok |-> FALSE, val |-> 0]

\* format!("{}", n) for a non-negative i32
DigitChar(d) == SubSeq("0123456789", d + 1, d + 1)

RECURSIVE IntToStr(_)
IntToStr(n) ==
    IF n < 10 THEN <<DigitChar(n)>>
    ELSE IntToStr(n \div 10) \o <<DigitChar(n % 10)>>


(***************************************************************************)
(* Status / method vocabulary.                                             *)
(***************************************************************************)
HttpStatusCode ==
    {"Ok", "Created", "Accepted", "NoContent", "MovedPermanently", "Found",
     "NotModified", "BadRequest", "Unauthorized", "Forbidden", "NotFound",
     "MethodNotAllowed", "InternalServerError", "NotImplemented",
     "BadGateway", "ServiceUnavailable"}

\* to_http_status with the code of the arm above copied into NotImplemented
to_http_status_copied(status) ==
    CASE status = "Ok" -> <<200, Chars("OK")>>
      [] status = "Created" -> <<201, Chars("CREATED")>>
      [] status = "Accepted" -> <<202, Chars("ACCEPTED")>>
      [] status = "NoContent" -> <<204, Chars("NO CONTENT")>>
      [] status = "MovedPermanently" -> <<301, Chars("MOVED PERMANENTLY")>>
      [] status = "Found" -> <<302, Chars("FOUND")>>
      [] status = "NotModified" -> <<304, Chars("NOT MODIFIED")>>
      [] status = "BadRequest" -> <<400, Chars("BAD REQUEST")>>
      [] status = "Unauthorized" -> <<401, Chars("UNAUTHORIZED")>>
      [] status = "Forbidden" -> <<403, Chars("FORBIDDEN")>>
      [] status = "NotFound" -> <<404, Chars("NOT FOUND")>>
      [] status = "MethodNotAllowed" -> <<405, Chars("METHOD NOT ALLOWED")>>
      [] status = "InternalServerError" ->
             <<500, Chars("INTERNAL SERVER ERROR")>>
      [] status = "NotImplemented" -> <<500, Chars("NOT IMPLEMENTED")>>
      [] status = "BadGateway" -> <<502, Chars("BAD GATEWAY")>>
      [] status = "ServiceUnavailable" -> <<503, Chars("SERVICE UNAVAILABLE")>>

\* HttpStatusCode::to_http_status
to_http_status(status) ==
    CASE status = "Ok" -> <<200, Chars("OK")>>
      [] status = "Created" -> <<201, Chars("CREATED")>>
      [] status = "Accepted" -> <<202, Chars("ACCEPTED")>>
      [] status = "NoContent" -> <<204, Chars("NO CONTENT")>>
      [] status = "MovedPermanently" -> <<301, Chars("MOVED PERMANENTLY")>>
      [] status = "Found" -> <<302, Chars("FOUND")>>
      [] status = "NotModified" -> <<304, Chars("NOT MODIFIED")>>
      [] status = "BadRequest" -> <<400, Chars("BAD REQUEST")>>
      [] status = "Unauthorized" -> <<401, Chars("UNAUTHORIZED")>>
      [] status = "Forbidden" -> <<403, Chars("FORBIDDEN")>>
      [] status = "NotFound" -> <<404, Chars("NOT FOUND")>>
      [] status = "MethodNotAllowed" -> <<405, Chars("METHOD NOT ALLOWED")>>
      [] status = "InternalServerError" ->
             <<500, Chars("INTERNAL SERVER ERROR")>>
      [] status = "NotImplemented" -> <<501, Chars("NOT IMPLEMENTED")>>
      [] status = "BadGateway" -> <<502, Chars("BAD GATEWAY")>>
      [] status = "ServiceUnavailable" -> <<503, Chars("SERVICE UNAVAILABLE")>>

HttpMethod ==
    {"Get", "Post", "Put", "Patch", "Delete", "Head", "Options", "Trace"}

\* from_str with a default arm: an unknown token parses as GET
from_str_default(method) ==
    CASE method = Chars("GET") -> "Get"
      [] method = Chars("POST") -> "Post"
      [] method = Chars("PUT") -> "Put"
      [] method = Chars("PATCH") -> "Patch"
      [] method = Chars("DELETE") -> "Delete"
      [] method = Chars("HEAD") -> "Head"
      [] method = Chars("OPTIONS") -> "Options"
      [] method = Chars("TRACE") -> "Trace"
      [] OTHER -> "Get"

\* <HttpMethod as FromStr>::from_str; "Err" is Err(())
from_str(method) ==
    CASE method = Chars("GET") -> "Get"
      [] method = Chars("POST") -> "Post"
      [] method = Chars("PUT") -> "Put"
      [] method = Chars("PATCH") -> "Patch"
      [] method = Chars("DELETE") -> "Delete"
      [] method = Chars("HEAD") -> "Head"
      [] method = Chars("OPTIONS") -> "Options"
      [] method = Chars("TRACE") -> "Trace"
      [] OTHER -> "Err"

(***************************************************************************)
(* Header mappings (HashMap<String, String>).                              *)
(***************************************************************************)
EmptyMap == <<>>

\* insert that keeps the value of a key already present
Insert_keep_first(h, key, value) ==
    [k \in (DOMAIN h) \cup {key} |-> IF k \in DOMAIN h THEN h[k] ELSE value]

\* HashMap::insert: a key already present gets the new value
Insert(h, key, value) ==
    [k \in (DOMAIN h) \cup {key} |-> IF k = key THEN value ELSE h[k]]

\* HashMap::len
MapLen(h) == Cardinality(DOMAIN h)

\* The orders in which iterating a HashMap may yield its keys
KeyOrders(h) ==
    {o \in [1..MapLen(h) -> DOMAIN h] :
        \A i, j \in 1..MapLen(h) : o[i] = o[j] => i = j}

(***************************************************************************)
(* Response serializer: impl ToString for HttpResponse.                    *)
(***************************************************************************)
\* the loop of lines 99-101, run in the iteration order `order`
RECURSIVE HeaderLines(_, _)
HeaderLines(h, order) ==
    IF order = <<>> THEN <<>>
    ELSE Head(order) \o Chars(": ") \o h[Head(order)] \o CRLF
         \o HeaderLines(h, Tail(order))

\* to_string ending the body with a line terminator of its own
to_string_terminated(resp, order) ==
    LET st == to_http_status(resp.status)
    IN  Chars("HTTP/1.1 ") \o IntToStr(st[1]) \o <<" ">> \o st[2] \o CRLF
        \o HeaderLines(resp.headers, order) \o CRLF \o resp.body \o CRLF

\* format!("HTTP/1.1 {} {}\r\n{}\r\n{}", status_code, status, headers, body)
to_string(resp, order) ==
    LET st == to_http_status(resp.status)
    IN  Chars("HTTP/1.1 ") \o IntToStr(st[1]) \o <<" ">> \o st[2] \o CRLF
        \o HeaderLines(resp.headers, order) \o CRLF \o resp.body

(***************************************************************************)
(* Request parser: parse_request up to its second read.                    *)
(***************************************************************************)
NoRequest ==
    [some |-> FALSE, method |-> "None", path |-> <<>>,
     headers |-> EmptyMap, body |-> <<>>]

\* the loop of lines 213-224: `panic` is the unwrap of line 221 on a line
\* that holds no ": "
RECURSIVE HeaderLoop(_, _, _)
HeaderLoop(lines, i, headers) ==
    IF i > Len(lines) \/ lines[i] = <<>>
    THEN [panic |-> FALSE, headers |-> headers]
    ELSE LET parts == Splitn2(lines[i])
         IN  IF Len(parts) < 2
             THEN [panic |-> TRUE, headers |-> headers]
             ELSE HeaderLoop(lines, i + 1,
                             Insert(headers, parts[1], parts[2]))

\* a lookup that also takes the lower-case spelling of the name
ContentLength_any_case(headers) ==
    LET names == {Chars("Content-Length"), Chars("content-length")}
    IN  IF names \cap DOMAIN headers # {}
        THEN ParseUsize(headers[CHOOSE k \in names : k \in DOMAIN headers])
        ELSE [ok |-> TRUE, val |-> 0]

\* lines 226-230: Ok(0) without the header, else the parse of its value
ContentLength(headers) ==
    IF Chars("Content-Length") \in DOMAIN headers
    THEN ParseUsize(headers[Chars("Content-Length")])
    ELSE [ok |-> TRUE, val |-> 0]

\* lines 232-237: the first chunk of the body
FirstBody(lines, headers) ==
    TrimMatchesNul(Join(Skip(lines, MapLen(headers) + 1), CRLF))

\* a subtraction that stops at zero
SubUsize_saturating(a, b) ==
    [ok |-> TRUE, val |-> IF a < b THEN 0 ELSE a - b]

\* line 238: a - b on usize; ok is FALSE when the result is below zero
SubUsize(a, b) ==
    IF a < b THEN [ok |-> FALSE, val |-> 0] ELSE [ok |-> TRUE, val |-> a - b]

ParseOutcome(kind, why, method, path, headers, body, content_length) ==
    [kind |-> kind, why |-> why, method |-> method, path |-> path,
     headers |-> headers, body |-> body, content_length |-> content_length,
     left_to_read |-> IF kind = "More"
                      THEN content_length - StrLen(body) ELSE 0]

NoParse == ParseOutcome("None", "", "None", <<>>, EmptyMap, <<>>, 0)

\* parse_request from line 193 to the return of line 241 or the allocation
\* of line 249, on the buffer of the initial read.  kind is
\*   "Err"   : return Err(ParseError::Unknown)
\*   "Panic" : the thread panics (why: the line that panics)
\*   "Ok"    : return Ok(request), no further read
\*   "More"  : left_to_read > 0, a second read follows
parse_initial(buffer) ==
    LET source == FromUtf8Lossy(buffer)
        all == SplitCRLF(source)
        first_line == Head(all)
        lines == Tail(all)
        parts == SplitWhitespace(first_line)
        method == IF Len(parts) >= 1 THEN from_str(parts[1]) ELSE "Err"
    IN  IF method = "Err"
        THEN ParseOutcome("Err", "method", "None", <<>>, EmptyMap, <<>>, 0)
        ELSE IF Len(parts) < 2
        THEN ParseOutcome("Err", "path", method, <<>>, EmptyMap, <<>>, 0)
        ELSE
        LET path == parts[2]
            hl == HeaderLoop(lines, 1, EmptyMap)
            cl == ContentLength(hl.headers)
            body == FirstBody(lines, hl.headers)
        IN  IF hl.panic
            THEN ParseOutcome("Panic", "header", method, path,
                              hl.headers, <<>>, 0)
            ELSE IF ~cl.ok
            THEN ParseOutcome("Panic", "content_length", method, path,
                              hl.headers, <<>>, 0)
            ELSE IF ~SubUsize(cl.val, StrLen(body)).ok
            THEN ParseOutcome("Panic", "underflow", method, path,
                              hl.headers, body, cl.val)
            ELSE IF SubUsize(cl.val, StrLen(body)).val = 0
            THEN ParseOutcome("Ok", "", method, path, hl.headers, body,
                              cl.val)
            ELSE ParseOutcome("More", "", method, path, hl.headers, body,
                              cl.val)

\* content_length - body.len() on usize when content_length < body.len():
\* with overflow checks the subtraction panics; without them it wraps to a
\* value above isize::MAX and vec![0; left_to_read] panics
UnderflowPanics == {"subtract with overflow", "capacity overflow"}

PanicReasons(why) == IF why = "underflow" THEN UnderflowPanics ELSE {why}

\* lines 249-260: the request built after the second read, which filled
\* `data` into a zeroed buffer of left_to_read bytes
request_after_read(p, data) ==
    [some |-> TRUE, method |-> p.method, path |-> p.path,
     headers |-> p.headers,
     body |-> p.body \o FromUtf8Lossy(FillBuffer(data, p.left_to_read))]

\* lines 241-246
request_of(p) ==
    [some |-> TRUE, method |-> p.method, path |-> p.path,
     headers |-> p.headers, body |-> p.body]

(***************************************************************************)
(* The inputs the model enumerates.                                        *)
(***************************************************************************)
MethodTokens ==
    {"GET", "POST", "PUT", "PATCH", "DELETE", "HEAD", "OPTIONS", "TRACE"}
OtherTokens == {"get", "Post", "GETS", "FOO"}

\* What a client sends on one connection: the segments in which its
\* bytes arrive.  A read returns bytes of the first segment not yet read.
Segs(ss) == [i \in 1..Len(ss) |-> Chars(ss[i])]

Wires ==
    {<<Chars(t) \o Chars(" /\r\n\r\n")>> : t \in MethodTokens \cup OtherTokens}
    \cup
    {Segs(w) : w \in
        {<<>>, <<"\r\n\r\n">>, <<"GET\r\n\r\n">>, <<" GET /\r\n\r\n">>,
         <<"/ GET\r\n\r\n">>, <<"GET /">>, <<"GET / HTTP/1.1\r\n\r\n">>,
         <<"GET /\r\nA: b\r\n\r\n">>, <<"GET /\r\nA: b: c\r\n\r\n">>,
         <<"GET /\r\nA\r\n\r\n">>, <<"GET /\r\nA: b\r\nA: c\r\n\r\n">>,
         <<"GET /\r\nA: b\r\nC: d\r\n\r\n">>, <<"GET /\r\nA: b\r\n">>,
         <<"GET /\r\n\r\nxy">>, <<"GET /\r\n\r\nGET /\r\n\r\n">>,
         <<"GET /\r\n\r\n", "GET /\r\n\r\n">>,
         <<"POST /\r\nCont", "ent-Length: 3\r\n\r\nabc">>,
         <<"POST /\r\nContent-Length: 3\r\n\r\nabc">>,
         <<"POST /\r\nContent-Length: 3\r\n\r\n", "abc">>,
         <<"POST /\r\nContent-Length: 3\r\n\r\na", "bc">>,
         <<"POST /\r\nContent-Length: 3\r\n\r\na", "b", "c">>,
         <<"POST /\r\nContent-Length: 3\r\n\r\na", "bcde">>,
         <<"POST /\r\nContent-Length: 3\r\n\r\na">>,
         <<"POST /\r\nContent-Length: 12\r\n\r\nabcdefghijkl">>,
         <<"GET /\r\nContent-Length: 2\r\nA: b\r\nA: c\r\n\r\n">>,
         <<"GET /\r\nA: b\r\na: c\r\n\r\n">>,
         <<"POST /\r\nContent-Length: 2\r\n\r\nabc">>,
         <<"POST /\r\nContent-Length: x\r\n\r\n">>,
         <<"POST /\r\nContent-Length: -1\r\n\r\n">>,
         <<"POST /\r\nContent-Length: +2\r\n\r\nab">>,
         <<"POST /\r\ncontent-length: 2\r\n\r\n", "ab">>,
         <<"POST /\r\ncontent-length: 2\r\n\r\nab">>}}
    \cup
    {<<Chars("POST /\r\nContent-Length: 3\r\n\r\n") \o b>> :
        b \in {<<BAD>>, <<NUL, "a", "b">>}}

\* What the handler may return
HeaderMaps ==
    {EmptyMap,
     Insert(EmptyMap, Chars("A"), Chars("b")),
     Insert(Insert(EmptyMap, Chars("A"), Chars("b")),
            Chars("X-Test"), Chars("1"))}

Responses ==
    {[status |-> st, headers |-> EmptyMap, body |-> <<>>] :
        st \in HttpStatusCode}
    \cup
    {[status |-> "Ok", headers |-> h, body |-> b] :
        h \in HeaderMaps, b \in {<<>>, Chars("Hi"), Chars("a\r\n")}}

NoResponse == [status |-> "None", headers |-> EmptyMap, body |-> <<>>]

\* The bytes a blocking read into `cap` bytes returns when the segments
\* `w` are still to arrive: bytes of the first one, or none at end of stream
Available(w, cap) ==
    IF w = <<>> THEN <<>>
    ELSE SubSeq(Head(w), 1, IF Len(Head(w)) < cap THEN Len(Head(w)) ELSE cap)

\* The segments left once the first n bytes have been read
Consume(w, n) ==
    IF w = <<>> THEN <<>>
    ELSE IF n >= Len(Head(w)) THEN Tail(w)
    ELSE <<SubSeq(Head(w), n + 1, Len(Head(w)))>> \o Tail(w)

\* All the bytes of the segments, in order
RECURSIVE Flatten(_)
Flatten(w) == IF w = <<>> THEN <<>> ELSE Head(w) \o Flatten(Tail(w))

(***************************************************************************)
(* State.                                                                  *)
(***************************************************************************)
VARIABLES
    pc,         \* the next step of listen / parse_request
    result,     \* what listen returned: "None" while it runs
    panic,      \* why the thread panicked, "" if it did not
    conns,      \* connections accepted so far
    open,       \* the accepted stream is alive (not yet dropped)
    wire,       \* bytes of the client not yet read by the server
    buffer,     \* parse_request's first buffer after the read
    parse,      \* parse_request's locals after the initial read
    got,        \* bytes the second read returned
    reads,      \* sizes of the buffers of this connection's read calls
    read_failed, \* a read call on this connection returned an error
    request,    \* the request parse_request returned
    response,   \* the response the handler returned
    out,        \* response.to_string()
    sent,       \* bytes the peer was sent on this connection
    writes,     \* write calls on this connection
    wrote,      \* the write call returned Ok
    flushed,    \* flush was called and returned Ok
    handled,    \* handler invocations for this connection
    logged,     \* "Error: ..." lines printed for this connection
    outcomes    \* how each earlier connection ended

vars ==
    <<pc, result, panic, conns, open, wire, buffer, parse, got, reads,
      read_failed, request, response, out, sent, writes, wrote, flushed,
      handled, logged, outcomes>>

connVars ==
    <<wire, buffer, parse, got, reads, read_failed, request, response,
      out, sent, writes, wrote, flushed, handled, logged>>

Init ==
    /\ pc = "bind"
    /\ result = "None"
    /\ panic = ""
    /\ conns = 0
    /\ open = FALSE
    /\ wire = <<>>
    /\ buffer = <<>>
    /\ parse = NoParse
    /\ got = <<>>
    /\ reads = <<>>
    /\ read_failed = FALSE
    /\ request = NoRequest
    /\ response = NoResponse
    /\ out = <<>>
    /\ sent = <<>>
    /\ writes = 0
    /\ wrote = FALSE
    /\ flushed = FALSE
    /\ handled = 0
    /\ logged = 0
    /\ outcomes = <<>>

(***************************************************************************)
(* Where control goes (HttpServer::listen).                                *)
(***************************************************************************)
\* line 163: TcpListener::bind(addr)? returns the error to the caller
AfterBindError == "returned"
\* line 165: `while let Ok(..) = listener.accept()` ends on an Err
AfterAcceptError == "returned"
\* `break` in the place of `continue`
\* a loop that hands a failed parse to the handler
AfterParseFailure_handle == "parsed"
AfterParseFailure_break == "returned"
\* line 167: `continue` on a parse failure
AfterParseFailure == "accept"
\* line 172: the body of `if let Ok(_) = stream.write(..)` is skipped
\* a loop that goes back to accept from a failed write, the stream kept
AfterWriteError_accept == "accept"
AfterWriteError == "end_iter"
\* keep-alive: the loop body goes back to read the same stream
AfterIteration_keep_alive == "read"
\* line 178: the end of the loop body
AfterIteration == "accept"
\* lines 191, 221, 230, 238/249, 251: a panic unwinds out of listen and main
AfterPanic == "panicked"

(***************************************************************************)
(* Actions.                                                                *)
(***************************************************************************)
\* line 163
Bind ==
    /\ pc = "bind"
    /\ \E ok \in BOOLEAN :
          IF ok
          THEN pc' = "accept" /\ result' = result
          ELSE pc' = AfterBindError /\ result' = "Err"
    /\ UNCHANGED <<panic, conns, open, outcomes>>
    /\ UNCHANGED connVars

\* line 165: accept returns a stream
Accept ==
    /\ pc = "accept"
    /\ conns < MaxConns
    /\ \E w \in Wires : wire' = w
    /\ pc' = "parse_request"
    /\ conns' = conns + 1
    /\ open' = TRUE
    /\ buffer' = <<>>
    /\ parse' = NoParse
    /\ got' = <<>>
    /\ reads' = <<>>
    /\ read_failed' = FALSE
    /\ request' = NoRequest
    /\ response' = NoResponse
    /\ out' = <<>>
    /\ sent' = <<>>
    /\ writes' = 0
    /\ wrote' = FALSE
    /\ flushed' = FALSE
    /\ handled' = 0
    /\ logged' = 0
    /\ UNCHANGED <<result, panic, outcomes>>

\* line 165: accept returns an error
AcceptError ==
    /\ pc = "accept"
    /\ pc' = AfterAcceptError
    /\ result' = IF pc' = "returned" THEN "Ok" ELSE result
    /\ UNCHANGED <<panic, conns, open, outcomes>>
    /\ UNCHANGED connVars

\* lines 166, 188-189: parse_request is entered
CallParse ==
    /\ pc = "parse_request"
    /\ pc' = "read"
    /\ buffer' = ZeroBuffer(BufSize)
    /\ UNCHANGED read_failed
    /\ UNCHANGED <<result, panic, conns, open, outcomes, wire, parse, got,
                   reads, request, response, out, sent, writes, wrote,
                   flushed, handled, logged>>

\* lines 191-247: the initial read returns the bytes that arrived, then the
\* parse runs up to the first return or the second read
Read ==
    /\ pc = "read"
    /\ LET data == Available(wire, BufSize)
           buf == FillBuffer(data, BufSize)
           p == parse_initial(buf)
       IN     /\ buffer' = buf
              /\ wire' = Consume(wire, Len(data))
              /\ parse' = p
              /\ \/ /\ p.kind = "Err"
                    /\ pc' = "parse_failed"
                    /\ UNCHANGED <<request, panic>>
                 \/ /\ p.kind = "Ok"
                    /\ pc' = "parsed"
                    /\ request' = request_of(p)
                    /\ UNCHANGED panic
                 \/ /\ p.kind = "More"
                    /\ pc' = "read_body"
                    /\ UNCHANGED <<request, panic>>
                 \/ /\ p.kind = "Panic"
                    /\ pc' = AfterPanic
                    /\ panic' \in PanicReasons(p.why)
                    /\ UNCHANGED request
    /\ reads' = Append(reads, BufSize)
    /\ UNCHANGED read_failed
    /\ UNCHANGED <<result, conns, open, outcomes, got, response, out, sent,
                   writes, wrote, flushed, handled, logged>>

\* line 191: the initial read returns an error and unwrap panics
ReadError ==
    /\ pc = "read"
    /\ pc' = AfterPanic
    /\ panic' = "read"
    /\ read_failed' = TRUE
    /\ reads' = Append(reads, BufSize)
    /\ UNCHANGED <<result, conns, open, outcomes, wire, buffer, parse, got,
                   request, response, out, sent, writes, wrote, flushed,
                   handled, logged>>

\* lines 249-260: the second read returns the bytes that arrived
ReadBody ==
    /\ pc = "read_body"
    /\ LET data == Available(wire, parse.left_to_read)
       IN  /\ got' = data
           /\ wire' = Consume(wire, Len(data))
           /\ request' = request_after_read(parse, data)
    /\ reads' = Append(reads, parse.left_to_read)
    /\ pc' = "parsed"
    /\ UNCHANGED read_failed
    /\ UNCHANGED <<result, panic, conns, open, outcomes, buffer, parse,
                   response, out, sent, writes, wrote, flushed, handled,
                   logged>>

\* line 251: the second read returns an error and unwrap panics
ReadBodyError ==
    /\ pc = "read_body"
    /\ pc' = AfterPanic
    /\ panic' = "read_body"
    /\ read_failed' = TRUE
    /\ reads' = Append(reads, parse.left_to_read)
    /\ UNCHANGED <<result, conns, open, outcomes, wire, buffer, parse, got,
                   request, response, out, sent, writes, wrote, flushed,
                   handled, logged>>

\* lines 166-168: Err(_) => continue; the stream is dropped
ContinueOnError ==
    /\ pc = "parse_failed"
    /\ pc' = AfterParseFailure
    /\ open' = FALSE
    /\ outcomes' = Append(outcomes, "ParseFailed")
    /\ UNCHANGED <<result, panic, conns>>
    /\ UNCHANGED connVars

\* line 170: the handler is called with the request, which moves into it;
\* parse_request's locals are gone
CallHandler ==
    /\ pc = "parsed"
    /\ pc' = "handler"
    /\ handled' = handled + 1
    /\ buffer' = <<>>
    /\ parse' = NoParse
    /\ got' = <<>>
    /\ UNCHANGED read_failed
    /\ UNCHANGED <<result, panic, conns, open, outcomes, wire, reads,
                   request, response, out, sent, writes, wrote, flushed,
                   logged>>

\* line 170: the handler returns a response
HandlerReturn ==
    /\ pc = "handler"
    /\ \E r \in Responses : response' = r
    /\ request' = NoRequest
    /\ pc' = "to_string"
    /\ UNCHANGED read_failed
    /\ UNCHANGED <<result, panic, conns, open, outcomes, wire, buffer,
                   parse, got, reads, out, sent, writes, wrote, flushed,
                   handled, logged>>

\* line 172: response.to_string()
Serialize ==
    /\ pc = "to_string"
    /\ \E order \in KeyOrders(response.headers) :
          out' = to_string(response, order)
    /\ pc' = "write"
    /\ UNCHANGED read_failed
    /\ UNCHANGED <<result, panic, conns, open, outcomes, wire, buffer,
                   parse, got, reads, request, response, sent, writes,
                   wrote, flushed, handled, logged>>

\* line 172: stream.write(bytes) returns Ok(n): n of the bytes were taken
Write ==
    /\ pc = "write"
    /\ \E n \in 1..Len(out) : sent' = SubSeq(out, 1, n)
    /\ writes' = writes + 1
    /\ wrote' = TRUE
    /\ pc' = "flush"
    /\ UNCHANGED read_failed
    /\ UNCHANGED <<result, panic, conns, open, outcomes, wire, buffer,
                   parse, got, reads, request, response, out, flushed,
                   handled, logged>>

\* line 172: stream.write(bytes) returns Err
WriteError ==
    /\ pc = "write"
    /\ writes' = writes + 1
    /\ pc' = AfterWriteError
    /\ UNCHANGED read_failed
    /\ UNCHANGED <<result, panic, conns, open, outcomes, wire, buffer,
                   parse, got, reads, request, response, out, sent, wrote,
                   flushed, handled, logged>>

\* lines 173-176: stream.flush(); an Err is printed
Flush ==
    /\ pc = "flush"
    /\ \E ok \in BOOLEAN :
          /\ flushed' = ok
          /\ logged' = IF ok THEN logged ELSE logged + 1
    /\ pc' = "end_iter"
    /\ UNCHANGED read_failed
    /\ UNCHANGED <<result, panic, conns, open, outcomes, wire, buffer,
                   parse, got, reads, request, response, out, sent, writes,
                   wrote, handled>>

\* line 178: the iteration ends and the stream is dropped
EndIteration ==
    /\ pc = "end_iter"
    /\ pc' = AfterIteration
    /\ open' = FALSE
    /\ outcomes' = Append(outcomes,
                          IF ~wrote THEN "WriteFailed"
                          ELSE IF ~flushed THEN "FlushFailed"
                          ELSE "Written")
    /\ UNCHANGED <<result, panic, conns>>
    /\ UNCHANGED connVars

Next ==
    \/ Bind
    \/ Accept
    \/ AcceptError
    \/ CallParse
    \/ Read
    \/ ReadError
    \/ ReadBody
    \/ ReadBodyError
    \/ ContinueOnError
    \/ CallHandler
    \/ HandlerReturn
    \/ Serialize
    \/ Write
    \/ WriteError
    \/ Flush
    \/ EndIteration

Spec == Init /\ [][Next]_vars

\* the positions of the thread between an accept that returned a stream
\* and the end of that iteration
Running ==
    {"parse_request", "read", "read_body", "parse_failed", "parsed",
     "handler", "to_string", "write", "flush", "end_iter"}

\* the thread leaves its position inside an iteration: the call it is in
\* (read, handler, write, flush) returns or panics
ThreadStep ==
    /\ pc \in Running
    /\ pc' \in (Running \cup {"accept", "returned", "panicked"}) \ {pc}

\* The thread running listen keeps running and every call it makes inside
\* an iteration returns; accept itself may wait for ever
FairSpec == Spec /\ WF_pc(ThreadStep)

(***************************************************************************)
(* Properties.                                                             *)
(***************************************************************************)
Last(q) == q[Len(q)]

\* The state of the current connection in the machine
\*   Accepted -> Parsing -> (ParseFailed -> Closed
\*                           | Parsed -> Handling -> Serializing -> Writing
\*                             -> Closed).
\* A thread that panicked did so inside parse_request: its connection
\* stays in Parsing.
ConnState ==
    CASE pc = "parse_request" -> "Accepted"
      [] pc \in {"read", "read_body", "panicked"} -> "Parsing"
      [] pc = "parse_failed" -> "ParseFailed"
      [] pc = "parsed" -> "Parsed"
      [] pc = "handler" -> "Handling"
      [] pc = "to_string" -> "Serializing"
      [] pc \in {"write", "flush", "end_iter"} -> "Writing"
      [] OTHER -> IF conns = 0 THEN "None" ELSE "Closed"

\* The first whitespace-delimited token of the request line of a buffer,
\* <<>> when the line has none
FirstToken(buf) ==
    LET parts == SplitWhitespace(Head(SplitCRLF(FromUtf8Lossy(buf))))
    IN  IF parts = <<>> THEN <<>> ELSE parts[1]

\* parse_request has run on the initial read of the current connection
InitialReadParsed == parse.kind # "None"

(* C1: whatever bytes the initial read of a connection delivers,           *)
(* parse_request returns a request or a parse failure (or goes on to read  *)
(* the body), the thread does not panic and listen does not return.        *)
C1_ContentNeverCrashes ==
    (InitialReadParsed /\ panic \notin {"read", "read_body"})
        => /\ parse.kind \in {"Err", "Ok", "More"}
           /\ pc # "panicked"
           /\ panic = ""

(* C2: when parse_request returns Err, the handler is not invoked, nothing *)
(* is written to the connection, the connection is closed and the loop     *)
(* goes back to accept.                                                    *)
C2_FailedState ==
    (parse.kind = "Err")
        => /\ handled = 0
           /\ writes = 0
           /\ sent = <<>>
           /\ panic = ""
           /\ ~request.some
           /\ pc \in {"parse_failed", "accept", "returned"}
           /\ (pc # "parse_failed" => ~open /\ Last(outcomes) = "ParseFailed")

C2_FailedStep ==
    (pc = "parse_failed")
        => /\ pc' = "accept"
           /\ ~open'
           /\ result' = "None"
           /\ handled' = 0 /\ writes' = 0 /\ sent' = <<>>

C2_ParseFailureIsolated == [](C2_FailedState) /\ [][C2_FailedStep]_vars

\* a connection is fully answered after an earlier one failed to parse
C2_ServedAfterFailure ==
    /\ \E i \in 1..Len(outcomes) - 1 : outcomes[i] = "ParseFailed"
    /\ Last(outcomes) = "Written"
    /\ pc = "accept"
    /\ handled = 1
    /\ sent = out /\ out # <<>>

(* C3: when the initial read captured k < n bytes of a body declared with  *)
(* Content-Length n and the client sends at least n - k bytes more, there  *)
(* is exactly one more read, of n - k bytes, and the body returned has     *)
(* length n and is the k bytes followed by the client's next n - k bytes.  *)
C3_BodyAssembled ==
    (pc = "parsed" /\ parse.kind = "More"
        /\ Len(got \o Flatten(wire)) >= parse.left_to_read)
        => LET n == parse.content_length
               k == StrLen(parse.body)
           IN  /\ reads = <<BufSize, n - k>>
               /\ Len(request.body) = n
               /\ request.body
                    = parse.body \o SubSeq(got \o Flatten(wire), 1, n - k)

(* C4: a connection gets at most one write and one handler call, nothing   *)
(* is read from it once the response was written, it is closed whenever    *)
(* the loop is back at accept, and its state only moves along the machine  *)
(* of ConnState, never back to Parsing.                                    *)
ConnTransitions ==
    {<<"None", "Accepted">>, <<"Closed", "Accepted">>,
     <<"Accepted", "Parsing">>, <<"Parsing", "ParseFailed">>,
     <<"Parsing", "Parsed">>, <<"ParseFailed", "Closed">>,
     <<"Parsed", "Handling">>, <<"Handling", "Serializing">>,
     <<"Serializing", "Writing">>, <<"Writing", "Closed">>}

C4_State ==
    /\ writes <= 1
    /\ handled <= 1
    /\ (pc = "accept" => ~open)
    /\ (writes > 0 => ConnState \in {"Writing", "Closed"})

C4_Step ==
    /\ (conns' = conns /\ writes >= 1) => (reads' = reads /\ wire' = wire)
    /\ (conns' = conns /\ handled >= 1) => request' = NoRequest
    /\ \/ ConnState' = ConnState
       \/ <<ConnState, ConnState'>> \in ConnTransitions

C4_SingleResponse == [](C4_State) /\ [][C4_Step]_vars

\* a connection is closed after its response while a second request that
\* the client sent on it was never read
C4_SecondRequestUnread ==
    /\ pc = "accept"
    /\ ~open
    /\ writes = 1
    /\ sent = out /\ out # <<>>
    /\ reads = <<BufSize>>
    /\ wire = <<Chars("GET /\r\n\r\n")>>

(* C5: listen returns only because bind failed, before any connection was *)
(* accepted; after a successful bind nothing makes it return.              *)
C5_OnlyBindStops ==
    (pc = "returned") => (result = "Err" /\ conns = 0)

(* C6: a failed write and a failed flush are both reported: an iteration   *)
(* that ends after either has printed an error line.                       *)
C6_IoErrorsLogged ==
    (pc = "end_iter" /\ (~wrote \/ ~flushed)) => logged >= 1

(* C7: a read call that fails makes parse_request return a parse failure: *)
(* the thread does not panic, nothing is written to the connection and the *)
(* loop drops the connection and goes on.                                  *)
C7_ReadFailureIsParseFailure ==
    read_failed
        => /\ panic = ""
           /\ pc \in {"parse_failed", "accept"}
           /\ writes = 0 /\ sent = <<>> /\ handled = 0

(* C8: a connection closed after a write that returned Ok was sent the     *)
(* whole serialized response.                                              *)
C8_WrittenInFull ==
    (~open /\ wrote) => sent = out

(* C9: the serialized response is the status line, CRLF, one              *)
(* "Key: Value" CRLF line per key of the headers (each key once, any       *)
(* order, no other header), an empty line, and then the body with nothing  *)
(* after it.                                                               *)
C9_Format ==
    (response.status # "None" /\ out # <<>>)
        => LET ls == SplitCRLF(out)
               nh == MapLen(response.headers)
               st == to_http_status(response.status)
               hdr == {k \o <<":", " ">> \o response.headers[k] :
                          k \in DOMAIN response.headers}
           IN  /\ Len(ls) >= nh + 3
               /\ ls[1] = Chars("HTTP/1.1 ") \o IntToStr(st[1]) \o <<" ">>
                          \o st[2]
               /\ {ls[i] : i \in 2..(nh + 1)} = hdr
               /\ Cardinality(hdr) = nh
               /\ ls[nh + 2] = <<>>
               /\ Join(Skip(ls, nh + 2), CRLF) = response.body

\* a response with two headers and a body has been serialized
C9_TwoHeadersSerialized ==
    /\ pc = "write"
    /\ MapLen(response.headers) = 2
    /\ response.body = Chars("Hi")

(* C10: a request line whose first token is one of the eight method tokens *)
(* parses to the matching method; with any other first token, or none,     *)
(* parse_request returns a parse failure and no method.                    *)
MethodTable ==
    {<<Chars("GET"), "Get">>, <<Chars("POST"), "Post">>,
     <<Chars("PUT"), "Put">>, <<Chars("PATCH"), "Patch">>,
     <<Chars("DELETE"), "Delete">>, <<Chars("HEAD"), "Head">>,
     <<Chars("OPTIONS"), "Options">>, <<Chars("TRACE"), "Trace">>}

C10_MethodTotality ==
    InitialReadParsed
        => LET tok == FirstToken(buffer)
           IN  IF \E e \in MethodTable : e[1] = tok
               THEN \A e \in MethodTable : e[1] = tok => parse.method = e[2]
               ELSE /\ parse.kind = "Err"
                    /\ parse.method = "None"
                    /\ ~request.some
                    /\ handled = 0

\* a lower-case spelling of a method was refused
C10_LowerCaseRefused ==
    /\ pc = "parse_failed"
    /\ FirstToken(buffer) = Chars("get")

(* C11: the status line of a serialized response is "HTTP/1.1", the fixed  *)
(* numeric code and the fixed reason phrase of its status; the codes are   *)
(* exactly the sixteen listed and no two statuses share a code.            *)
StatusLines ==
    {<<"Ok", "HTTP/1.1 200 OK">>,
     <<"Created", "HTTP/1.1 201 CREATED">>,
     <<"Accepted", "HTTP/1.1 202 ACCEPTED">>,
     <<"NoContent", "HTTP/1.1 204 NO CONTENT">>,
     <<"MovedPermanently", "HTTP/1.1 301 MOVED PERMANENTLY">>,
     <<"Found", "HTTP/1.1 302 FOUND">>,
     <<"NotModified", "HTTP/1.1 304 NOT MODIFIED">>,
     <<"BadRequest", "HTTP/1.1 400 BAD REQUEST">>,
     <<"Unauthorized", "HTTP/1.1 401 UNAUTHORIZED">>,
     <<"Forbidden", "HTTP/1.1 403 FORBIDDEN">>,
     <<"NotFound", "HTTP/1.1 404 NOT FOUND">>,
     <<"MethodNotAllowed", "HTTP/1.1 405 METHOD NOT ALLOWED">>,
     <<"InternalServerError", "HTTP/1.1 500 INTERNAL SERVER ERROR">>,
     <<"NotImplemented", "HTTP/1.1 501 NOT IMPLEMENTED">>,
     <<"BadGateway", "HTTP/1.1 502 BAD GATEWAY">>,
     <<"ServiceUnavailable", "HTTP/1.1 503 SERVICE UNAVAILABLE">>}

C11_StatusMapping ==
    /\ (response.status # "None" /\ out # <<>>)
          => \E e \in StatusLines :
                /\ e[1] = response.status
                /\ Head(SplitCRLF(out)) = Chars(e[2])
    /\ {to_http_status(st)[1] : st \in HttpStatusCode}
          = {200, 201, 202, 204, 301, 302, 304, 400, 401, 403, 404, 405,
             500, 501, 502, 503}
    /\ \A st, su \in HttpStatusCode :
          to_http_status(st)[1] = to_http_status(su)[1] => st = su

\* a response with the last status of the enumeration has been serialized
C11_ServiceUnavailableSerialized ==
    /\ pc = "write"
    /\ response.status = "ServiceUnavailable"
    /\ Head(SplitCRLF(out)) = Chars("HTTP/1.1 503 SERVICE UNAVAILABLE")

\* The header/body separator of a text: the places of its blank lines
SeparatorAt(s) ==
    {i \in 1..(Len(s) - 3) :
        s[i] = CR /\ s[i + 1] = LF /\ s[i + 2] = CR /\ s[i + 3] = LF}

\* a text without the NULs at its end
TrimTrailingNul(s) ==
    LET keep == {i \in 1..Len(s) : s[i] # NUL}
    IN  IF keep = {} THEN <<>>
        ELSE SubSeq(s, 1, CHOOSE x \in keep : \A y \in keep : y <= x)

\* The bytes of a buffer that follow the first blank line, without the
\* padding at the end of the buffer
RawBody(buf) ==
    LET s == FromUtf8Lossy(buf)
    IN  TrimTrailingNul(SubSeq(s, Min(SeparatorAt(s)) + 4, Len(s)))

\* parse_request got as far as computing the first chunk of the body
BodyComputed ==
    \/ parse.kind \in {"Ok", "More"}
    \/ parse.kind = "Panic" /\ parse.why = "underflow"

(* C12: when the header block and its blank line lie inside the initial    *)
(* read, the first body chunk is exactly what follows the blank line in    *)
(* the buffer, without the padding at the end of the buffer.               *)
C12_FirstChunkIsRawBody ==
    (BodyComputed /\ SeparatorAt(FromUtf8Lossy(buffer)) # {})
        => parse.body = RawBody(buffer)

\* The header block of a buffer: the lines after the request line, up to
\* and excluding the first empty line
HeaderBlock(buf) ==
    LET all == SplitCRLF(FromUtf8Lossy(buf))
        empty == {i \in 2..Len(all) : all[i] = <<>>}
    IN  SubSeq(all, 2, IF empty = {} THEN Len(all) ELSE Min(empty) - 1)

KeyOf(line) == SubSeq(line, 1, Min(SepAt(line)) - 1)
ValueOf(line) == SubSeq(line, Min(SepAt(line)) + 2, Len(line))

\* The mapping the header block stands for: each key with the value of the
\* last line that holds it
ExpectedHeaders(buf) ==
    LET hb == HeaderBlock(buf)
        LastOf(k) == CHOOSE i \in 1..Len(hb) :
                        /\ KeyOf(hb[i]) = k
                        /\ \A j \in 1..Len(hb) : KeyOf(hb[j]) = k => j <= i
    IN  [k \in {KeyOf(hb[i]) : i \in 1..Len(hb)} |-> ValueOf(hb[LastOf(k)])]

\* the request line parsed and every line of the header block holds ": "
HeadersWellFormed ==
    /\ parse.kind \notin {"None", "Err"}
    /\ \A i \in 1..Len(HeaderBlock(buffer)) :
          SepAt(HeaderBlock(buffer)[i]) # {}

(* C13: the header mapping holds, for every key of the header block (the   *)
(* lines before the first empty line, each cut at its first ": ", case as  *)
(* received), the value of the last line with that key, and nothing else;  *)
(* the request returned carries that mapping.                              *)
C13_Headers ==
    HeadersWellFormed
        => /\ parse.kind # "Panic" \/ parse.why # "header"
           /\ parse.headers = ExpectedHeaders(buffer)
           /\ (pc = "parsed" => request.headers = ExpectedHeaders(buffer))

\* a request is returned for a header block in which the key A occurs twice
C13_LastValueReturned ==
    /\ pc = "parsed"
    /\ Len(HeaderBlock(buffer)) = 3
    /\ HeaderBlock(buffer)[2] = Chars("A: b")
    /\ HeaderBlock(buffer)[3] = Chars("A: c")
    /\ request.headers[Chars("A")] = Chars("c")

(* C14: the handler is invoked once for a connection whose parse returned  *)
(* a request and not at all for one whose parse failed; it is handed a     *)
(* constructed request; the bytes serialized and written on the connection *)
(* are those of the response it returned.                                  *)
C14_HandlerOncePerRequest ==
    /\ pc \in {"parse_request", "read", "read_body", "parse_failed", "parsed"}
          => handled = 0
    /\ pc \in {"handler", "to_string", "write", "flush", "end_iter"}
          => handled = 1
    /\ (~open /\ conns > 0)
          => (handled = 0 <=> Last(outcomes) = "ParseFailed")
    /\ pc = "handler" => (request.some /\ request.method \in HttpMethod)
    /\ writes <= handled
    /\ pc \in {"flush", "end_iter"} => writes = 1
    /\ pc \in {"write", "flush", "end_iter"}
          => /\ response \in Responses
             /\ \E order \in KeyOrders(response.headers) :
                   out = to_string(response, order)
             /\ sent = SubSeq(out, 1, Len(sent))

\* after a connection whose parse failed, a second one was parsed, handled
\* once and its response written
C14_SecondConnectionHandled ==
    /\ outcomes = <<"ParseFailed">>
    /\ pc = "end_iter"
    /\ handled = 1
    /\ response.status = "NotFound"
    /\ sent = out

(* C15: connections are served one at a time: the connections accepted    *)
(* and not yet closed are at most one, accept is awaited only with none    *)
(* open, and each connection's outcome is recorded before the next accept, *)
(* so outcomes follow the accept order.                                    *)
C15_StrictlySerial ==
    /\ conns - Len(outcomes) = (IF open THEN 1 ELSE 0)
    /\ pc = "accept" => ~open
    /\ pc \in {"parse_request", "read", "read_body", "parse_failed",
               "parsed", "handler", "to_string", "write", "flush",
               "end_iter"}
          => (open /\ Len(outcomes) = conns - 1)
    /\ (writes > 0 \/ handled > 0) => open \/ Len(outcomes) = conns

\* the second connection is being written to after the first was answered
\* and closed
C15_SecondAfterFirstClosed ==
    /\ outcomes = <<"Written">>
    /\ conns = 2
    /\ open
    /\ pc = "flush"
    /\ wrote

\* the request line of the buffer holds a method of the table and a path
RequestLineParsed ==
    /\ InitialReadParsed
    /\ from_str(FirstToken(buffer)) # "Err"
    /\ Len(SplitWhitespace(Head(SplitCRLF(FromUtf8Lossy(buffer))))) >= 2

\* the header block is well formed and its Content-Length value is not
\* accepted as an unsigned decimal
BadContentLength ==
    /\ RequestLineParsed
    /\ \A i \in 1..Len(HeaderBlock(buffer)) :
          SepAt(HeaderBlock(buffer)[i]) # {}
    /\ Chars("Content-Length") \in DOMAIN ExpectedHeaders(buffer)
    /\ ~ParseUsize(ExpectedHeaders(buffer)[Chars("Content-Length")]).ok

(* C16: a request whose Content-Length value is not a non-negative decimal *)
(* integer makes parse_request return Err: no request is returned, the     *)
(* thread does not panic, the handler is not invoked and nothing is        *)
(* written.                                                                *)
C16_BadLengthIsParseFailure ==
    BadContentLength
        => /\ parse.kind = "Err"
           /\ pc \in {"parse_failed", "accept"}
           /\ panic = ""
           /\ ~request.some
           /\ handled = 0
           /\ writes = 0

(* C17: every accepted connection is eventually closed with the loop back *)
(* at accept, and parse_request performs at most two reads on it.          *)
C17_EveryConnectionCloses ==
    /\ open ~> (~open /\ pc = "accept")
    /\ [](Len(reads) <= 2)

\* The declared body length of the buffer's header block: the value of its
\* Content-Length header, 0 without one
DeclaredLength(buf) ==
    IF Chars("Content-Length") \in DOMAIN ExpectedHeaders(buf)
    THEN ParseUsize(ExpectedHeaders(buf)[Chars("Content-Length")])
    ELSE [ok |-> TRUE, val |-> 0]

\* the initial read holds a well-formed request head, its blank line and
\* exactly as many body bytes as the head declares
ExactBodyCaptured ==
    /\ RequestLineParsed
    /\ \A i \in 1..Len(HeaderBlock(buffer)) :
          SepAt(HeaderBlock(buffer)[i]) # {}
    /\ SeparatorAt(FromUtf8Lossy(buffer)) # {}
    /\ DeclaredLength(buffer).ok
    /\ StrLen(RawBody(buffer)) = DeclaredLength(buffer).val

(* C18: when the body bytes captured by the initial read number exactly    *)
(* the declared length (the Content-Length value, 0 without the header),   *)
(* parse_request returns the request after that single read, with those    *)
(* bytes as its body.                                                      *)
C18_ExactBodySingleRead ==
    ExactBodyCaptured
        => /\ parse.kind = "Ok"
           /\ parse.content_length = DeclaredLength(buffer).val
           /\ pc = "parsed"
           /\ Len(reads) = 1
           /\ request.some
           /\ request.body = RawBody(buffer)

\* the first body chunk the code computes from the buffer's lines
CapturedBody(buf) ==
    FirstBody(Tail(SplitCRLF(FromUtf8Lossy(buf))), ExpectedHeaders(buf))

\* the head is well formed and declares fewer bytes than the initial read
\* captured as body
DeclaredBelowCaptured ==
    /\ RequestLineParsed
    /\ \A i \in 1..Len(HeaderBlock(buffer)) :
          SepAt(HeaderBlock(buffer)[i]) # {}
    /\ DeclaredLength(buffer).ok
    /\ DeclaredLength(buffer).val < StrLen(CapturedBody(buffer))

NoExactContentLength ==
    /\ RequestLineParsed
    /\ \A i \in 1..Len(HeaderBlock(buffer)) :
          /\ SepAt(HeaderBlock(buffer)[i]) # {}
          /\ KeyOf(HeaderBlock(buffer)[i]) # Chars("Content-Length")

(* C20: the declared length is looked up under the exact key               *)
(* Content-Length: without a header of exactly that name (a name in        *)
(* another letter case included) the declared length is 0, no second read  *)
(* follows, and every header is stored under the name it was received      *)
(* with.                                                                   *)
C20_ExactKeyLookup ==
    NoExactContentLength
        => /\ parse.content_length = 0
           /\ parse.kind \in {"Ok", "Panic"}
           /\ parse.kind = "Panic" => parse.why = "underflow"
           /\ Len(reads) = 1
           /\ \A i \in 1..Len(HeaderBlock(buffer)) :
                 KeyOf(HeaderBlock(buffer)[i]) \in DOMAIN parse.headers

\* a request with the header content-length: 2 is returned after the
\* initial read with an empty body, the header under its lower-case name
C20_LowerCaseIgnored ==
    /\ NoExactContentLength
    /\ HeaderBlock(buffer) = <<Chars("content-length: 2")>>
    /\ pc = "parsed"
    /\ request.body = <<>>
    /\ request.headers = (Chars("content-length") :> Chars("2"))

=============================================================================
